---- MODULE Spec2Model ----
(***************************************************************************)
(* Files Dividers plugin (src/main.ts): the divider store, the rendering   *)
(* of the store into the file explorer (one style block plus tags on the   *)
(* live items), the enabled switch, the delayed re-apply on layout changes *)
(* and the asynchronous persist whose completion re-applies or retracts.   *)
(*                                                                         *)
(* A name is a sequence of one-character strings, so that trimming and     *)
(* extension stripping are computed as the code computes them.             *)
(***************************************************************************)
EXTENDS Integers, Sequences, FiniteSets, TLC

VARIABLES
    dividers,         \* settings.dividers: sequence of divider records
    dividerColor,     \* settings.dividerColor
    dividerThickness, \* settings.dividerThickness
    enabled,          \* settings.enabled
    styles,           \* <style id="files-dividers-styles"> elements of document.head, in order
    fileExplorer,     \* whether '.nav-files-container' is in the document
    els,              \* the live items of the file explorer: item -> its classes and data attributes
    saves,            \* saveData calls in flight, each with the continuation that awaits it
    timers,           \* number of pending setTimeout(() => applyDividers(), 100) callbacks
    panel,            \* the settings tab as last rendered by display()
    notice,           \* the last Notice shown
    loaded,           \* FALSE once onunload has run
    storage,          \* the plugin's data file: the writes of the saveData calls in flight
                      \* and the content last written (followed only when observed)
    lastOp,           \* history: the operation invoked last by the user
    roundTrip         \* history: progress of an Enabled -> Disabled -> Enabled round trip

vars == <<dividers, dividerColor, dividerThickness, enabled, styles, fileExplorer,
          els, saves, timers, panel, notice, loaded, storage, lastOp, roundTrip>>

----------------------------------------------------------------------------
(* Bounds of the model *)

MaxDividers == 2    \* Add is explored while the store holds fewer records
MaxSaves == 2       \* saveData calls in flight at once
MaxTimers == 2      \* delayed applies pending at once
MaxSlider == 2      \* thickness values the slider is moved to: 1..MaxSlider

(* Program constants *)

SliderMin == 1
SliderMax == 5
BaseOffset == 8
Margin == 16

DefaultColor == "#484848"
DefaultThickness == 1
Colors == {DefaultColor, "#ff0000"}

ItemTypes == {"file", "folder"}
Positions == {"above", "below"}

(* Names the operations are called with, and the live items that may be    *)
(* shown in the explorer (their title text, before trimming).              *)
ItemNames == { <<"a">>, <<"a", ".", "m">> }
LiveItems == { [kind |-> "folder", text |-> <<"a">>],
               [kind |-> "file",   text |-> <<"a", " ">>] }

(* The items of a vault with file names of no, one and two dots and folders *)
(* whose names extend one another; text is the title the explorer shows    *)
(* for the item (the last extension of "t.x.m" is not shown).              *)
VaultItems ==
    { [kind |-> "file",   name |-> <<"t">>,                     text |-> <<"t">>],
      [kind |-> "file",   name |-> <<"t", ".", "m">>,           text |-> <<" ", "t", ".", "m">>],
      [kind |-> "file",   name |-> <<"t", ".", "x", ".", "m">>, text |-> <<"t", ".", "x">>],
      [kind |-> "folder", name |-> <<"t">>,                     text |-> <<"t">>],
      [kind |-> "folder", name |-> <<"t", "2">>,                text |-> <<"t", "2">>],
      [kind |-> "folder", name |-> <<"t", ".", "m">>,           text |-> <<"t", ".", "m">>] }

MatchItems == { [kind |-> v.kind, text |-> v.text] : v \in VaultItems }

----------------------------------------------------------------------------
(* Strings *)

IsSpace(c) == c = " "

RECURSIVE TrimStart(_)
TrimStart(s) ==
    IF s # <<>> /\ IsSpace(Head(s)) THEN TrimStart(Tail(s)) ELSE s

RECURSIVE TrimEnd(_)
TrimEnd(s) ==
    IF s # <<>> /\ IsSpace(s[Len(s)]) THEN TrimEnd(SubSeq(s, 1, Len(s) - 1)) ELSE s

\* String.prototype.trim
Trim(s) == TrimEnd(TrimStart(s))

\* Mutation of StripExt: everything from the first "." on is removed
StripFromFirstDot(s) ==
    LET dots == { i \in 1..Len(s) : s[i] = "." }
    IN IF dots = {} THEN s
       ELSE SubSeq(s, 1, (CHOOSE k \in dots : \A m \in dots : k <= m) - 1)

\* s.replace(/\.[^/.]+$/, ""): a final "." followed by one or more characters
\* that are neither "/" nor "." is removed.
StripExt(s) ==
    LET starts == { i \in 1..Len(s) :
                      /\ s[i] = "."
                      /\ i < Len(s)
                      /\ \A j \in (i + 1)..Len(s) : s[j] # "/" /\ s[j] # "." }
    IN IF starts = {} THEN s
       ELSE LET i == CHOOSE k \in starts : \A m \in starts : k <= m
            IN SubSeq(s, 1, i - 1)

----------------------------------------------------------------------------
(* The store *)

Triple(d) == <<d.itemName, d.itemType, d.position>>

\* Mutation of Matches: the position is compared with the wrong field
MatchesWrongField(d, itemName, itemType, position) ==
    d.itemName = itemName /\ d.itemType = itemType /\ d.position = d.itemType

\* d => d.itemName === itemName && d.itemType === itemType && d.position === position
Matches(d, itemName, itemType, position) ==
    d.itemName = itemName /\ d.itemType = itemType /\ d.position = position

\* Mutation of Exists: the search starts at the second record
ExistsSkipFirst(ds, itemName, itemType, position) ==
    \E i \in DOMAIN ds \ {1} : Matches(ds[i], itemName, itemType, position)

\* Array.prototype.find(...) !== undefined
Exists(ds, itemName, itemType, position) ==
    \E i \in DOMAIN ds : Matches(ds[i], itemName, itemType, position)

\* Array.prototype.indexOf on record objects: identity, 0-based, -1 when absent
IndexOf(ds, id) ==
    IF \E i \in DOMAIN ds : ds[i].id = id
    THEN (CHOOSE i \in DOMAIN ds : ds[i].id = id /\ \A j \in 1..(i - 1) : ds[j].id # id) - 1
    ELSE -1

\* Array.prototype.splice(start, 1): a negative start counts from the end
Splice1(ds, start) ==
    LET from == IF start < 0 THEN (IF Len(ds) + start < 0 THEN 0 ELSE Len(ds) + start)
                ELSE (IF start > Len(ds) THEN Len(ds) ELSE start)
    IN [i \in 1..(IF from < Len(ds) THEN Len(ds) - 1 ELSE Len(ds)) |->
          IF i <= from THEN ds[i] ELSE ds[i + 1]]

\* The identity of a newly created record object: one that no record of the
\* store and no button of the settings tab refers to.
Ids == 1..(2 * MaxDividers + 1)
NewId(ds, buttons) ==
    CHOOSE i \in Ids :
        /\ i \notin buttons /\ \A k \in DOMAIN ds : ds[k].id # i
        /\ \A j \in 1..(i - 1) : j \in buttons \/ \E k \in DOMAIN ds : ds[k].id = j

\* { itemName, itemType, position, style: 'line' }, a new object
NewRecord(itemName, itemType, position, id) ==
    [itemName |-> itemName, itemType |-> itemType, position |-> position,
     style |-> "line", id |-> id]

\* Mutation of Push: the record is put in front (unshift)
Unshift(ds, d) == <<d>> \o ds

\* Array.prototype.push
Push(ds, d) == Append(ds, d)

\* Mutation of WithoutTriple: the position is not compared
WithoutTripleAnyPosition(ds, itemName, itemType, position) ==
    LET Keep(d) == ~(d.itemName = itemName /\ d.itemType = itemType)
    IN SelectSeq(ds, Keep)

\* The array after dividers.filter(d => !(triple matches))
WithoutTriple(ds, itemName, itemType, position) ==
    LET Keep(d) == ~Matches(d, itemName, itemType, position)
    IN SelectSeq(ds, Keep)

\* The array after dividers.filter(d => !(d.itemName === itemName && d.itemType === itemType))
WithoutItem(ds, itemName, itemType) ==
    LET Keep(d) == ~(d.itemName = itemName /\ d.itemType = itemType)
    IN SelectSeq(ds, Keep)

----------------------------------------------------------------------------
(* Rendering: the style block and the tags on the live items *)

\* `nav-folder-divider-${position}` / `nav-file-divider-${position}`
ItemClass(itemType) == IF itemType = "folder" THEN "nav-folder" ELSE "nav-file"
ClassName(itemClass, position) == <<itemClass, "divider", position>>
DividerClasses ==
    { ClassName(c, p) : c \in {"nav-folder", "nav-file"}, p \in Positions }

\* An element without data-item/data-type and without divider classes
Untagged == [classes |-> {}, dataItem |-> {}, dataType |-> {}]

\* Mutation of CssRule: the offset is the base offset alone
CssRuleBaseOffset(d, color, thickness) ==
    [ class       |-> ClassName(ItemClass(d.itemType), d.position),
      dataItem    |-> d.itemName,
      dataType    |-> d.itemType,
      pseudo      |-> IF d.position = "above" THEN "before" ELSE "after",
      height      |-> thickness,
      background  |-> color,
      radius      |-> <<thickness, 2>>,
      offsetSide  |-> IF d.position = "above" THEN "top" ELSE "bottom",
      offset      |-> 0 - BaseOffset,
      marginSide  |-> IF d.position = "above" THEN "margin-top" ELSE "margin-bottom",
      margin      |-> Margin ]

\* The two CSS rules generated for one divider record; radius is the
\* fraction thickness / 2.
CssRule(d, color, thickness) ==
    [ class       |-> ClassName(ItemClass(d.itemType), d.position),
      dataItem    |-> d.itemName,
      dataType    |-> d.itemType,
      pseudo      |-> IF d.position = "above" THEN "before" ELSE "after",
      height      |-> thickness,
      background  |-> color,
      radius      |-> <<thickness, 2>>,
      offsetSide  |-> IF d.position = "above" THEN "top" ELSE "bottom",
      offset      |-> 0 - (BaseOffset + thickness),
      marginSide  |-> IF d.position = "above" THEN "margin-top" ELSE "margin-bottom",
      margin      |-> Margin ]

\* settings.dividers.map(...).join('\n')
CssRules(ds, color, thickness) ==
    [i \in DOMAIN ds |-> CssRule(ds[i], color, thickness)]

\* Mutation of ClearTags: the attributes are removed, the classes are left
ClearTagsKeepClasses(el) ==
    [e \in DOMAIN el |->
        IF el[e].dataItem # {}
        THEN [classes |-> el[e].classes, dataItem |-> {}, dataType |-> {}]
        ELSE el[e]]

\* querySelectorAll('[data-item]').forEach: attributes and the four classes removed
ClearTags(el) ==
    [e \in DOMAIN el |->
        IF el[e].dataItem # {}
        THEN [classes  |-> el[e].classes \ DividerClasses,
              dataItem |-> {},
              dataType |-> {}]
        ELSE el[e]]

\* Mutation of RemoveStyle: the existing element is left in the document
KeepStyle(st) == st

\* getElementById('files-dividers-styles')?.remove(): the first such element
RemoveStyle(st) == IF st # <<>> THEN Tail(st) ELSE st

\* Mutation of removeDividers: the tags of the live items are left in place
removeDividersKeepTags(st, el) == [styles |-> RemoveStyle(st), els |-> el]

\* removeDividers()
removeDividers(st, el) == [styles |-> RemoveStyle(st), els |-> ClearTags(el)]

\* The four-way comparison of a file record with a live file title
FileMatch(fileName, itemName) ==
    \/ fileName = itemName
    \/ StripExt(fileName) = StripExt(itemName)
    \/ fileName = StripExt(itemName)
    \/ StripExt(fileName) = itemName

\* Mutation of Tags: a folder title is compared as a file title is
TagsFolderAsFile(d, e) ==
    IF d.itemType = "folder"
    THEN e.kind = "folder" /\ FileMatch(Trim(e.text), d.itemName)
    ELSE IF d.itemType = "file"
         THEN e.kind = "file" /\ FileMatch(Trim(e.text), d.itemName)
         ELSE FALSE

\* Whether record d tags live item e
Tags(d, e) ==
    IF d.itemType = "folder"
    THEN e.kind = "folder" /\ Trim(e.text) = d.itemName
    ELSE IF d.itemType = "file"
         THEN e.kind = "file" /\ FileMatch(Trim(e.text), d.itemName)
         ELSE FALSE

\* classList.add; setAttribute('data-item'); setAttribute('data-type')
TagWith(d, el) ==
    [e \in DOMAIN el |->
        IF Tags(d, e)
        THEN [classes  |-> el[e].classes \cup {ClassName(ItemClass(d.itemType), d.position)},
              dataItem |-> {d.itemName},
              dataType |-> {d.itemType}]
        ELSE el[e]]

\* settings.dividers.forEach(...)
RECURSIVE TagAll(_, _)
TagAll(ds, el) ==
    IF ds = <<>> THEN el ELSE TagAll(Tail(ds), TagWith(Head(ds), el))

\* addDividerClasses()
addDividerClasses(ds, explorer, el) ==
    IF ~explorer THEN el ELSE TagAll(ds, ClearTags(el))

\* Mutation of applyDividers: the empty-store return comes before removeDividers()
applyDividersEarlyReturn(ds, color, thickness, explorer, st, el) ==
    IF Len(ds) = 0 THEN [styles |-> st, els |-> el]
    ELSE LET r == removeDividers(st, el)
         IN [styles |-> Append(r.styles, CssRules(ds, color, thickness)),
             els    |-> addDividerClasses(ds, explorer, r.els)]

\* applyDividers()
applyDividers(ds, color, thickness, explorer, st, el) ==
    LET r == removeDividers(st, el)
    IN IF Len(ds) = 0 THEN r
       ELSE [styles |-> Append(r.styles, CssRules(ds, color, thickness)),
             els    |-> addDividerClasses(ds, explorer, r.els)]

\* Mutation of Reapply: the test of settings.enabled is inverted
ReapplyInverted(en, ds, color, thickness, explorer, st, el) ==
    IF en THEN removeDividers(st, el)
    ELSE applyDividers(ds, color, thickness, explorer, st, el)

\* saveSettings() after its await: apply when enabled, else remove
Reapply(en, ds, color, thickness, explorer, st, el) ==
    IF en THEN applyDividers(ds, color, thickness, explorer, st, el)
    ELSE removeDividers(st, el)

----------------------------------------------------------------------------
(* Notices *)

NoName == <<>>
Notice(kind, position, itemType, itemName, count) ==
    [kind |-> kind, position |-> position, itemType |-> itemType,
     itemName |-> itemName, count |-> count]

NoNotice == Notice("none", "", "", NoName, 0)
\* `Divider already exists ${position} ${itemType} "${itemName}"`
AlreadyExists(n, t, p) == Notice("already exists", p, t, n, 0)
\* `Added divider ${position} ${itemType} "${itemName}"`
Added(n, t, p) == Notice("added", p, t, n, 0)
\* `Removed divider ${position} ${itemType} "${itemName}"`
Removed(n, t, p) == Notice("removed", p, t, n, 0)
\* `Removed ${removedCount - newCount} divider(s) from ${itemType} "${itemName}"`
RemovedFrom(n, t, count) == Notice("removed from", "", t, n, count)
\* 'No dividers to clear'
NothingToClear == Notice("no dividers to clear", "", "", NoName, 0)
\* `Cleared ${count} divider(s)`
Cleared(count) == Notice("cleared", "", "", NoName, count)
\* `Files dividers ${status}`
Toggled(en) == Notice(IF en THEN "enabled" ELSE "disabled", "", "", NoName, 0)

----------------------------------------------------------------------------
(* History of a round trip of the enabled switch.  "applied": the rendering *)
(* is the output of an apply and neither the settings nor the tree changed *)
(* since; "off": switched to disabled from there, snap holds the rendering *)
(* at that moment; "retracted": the retract of that switch has run (a      *)
(* switch to enabled and back before any apply leaves it so); "on":        *)
(* switched back to enabled; "restored": the apply of that switch has run; *)
(* "reapplied": as "applied", and an apply has run in an "applied" state.  *)

NoSnap == <<>>
Idle == [phase |-> "idle", snap |-> NoSnap]
Untracked == [phase |-> "untracked", snap |-> NoSnap]

Track(rt, event, st, el) ==
    CASE rt = Untracked -> rt
      [] event = "change" -> Idle
      [] event = "unload" -> Idle
      [] event = "apply" ->
            IF rt.phase = "idle" THEN [phase |-> "applied", snap |-> NoSnap]
            ELSE IF rt.phase = "applied" THEN [phase |-> "reapplied", snap |-> NoSnap]
            ELSE IF rt.phase = "on" THEN [rt EXCEPT !.phase = "restored"]
            ELSE rt
      [] event = "retract" ->
            IF rt.phase = "off" THEN [rt EXCEPT !.phase = "retracted"]
            ELSE IF rt.phase = "retracted" THEN rt
            ELSE Idle
      [] event = "toggleOff" ->
            IF rt.phase \in {"applied", "reapplied", "restored"}
            THEN [phase |-> "off", snap |-> <<st, el>>]
            ELSE IF rt.phase = "on" THEN [rt EXCEPT !.phase = "retracted"]
            ELSE Idle
      [] event = "toggleOn" ->
            IF rt.phase = "retracted" THEN [rt EXCEPT !.phase = "on"]
            ELSE IF rt.phase \in {"off", "applied", "reapplied"}
                 THEN [phase |-> "applied", snap |-> NoSnap]
            ELSE Idle
      [] OTHER -> rt

----------------------------------------------------------------------------
(* State after onload *)

\* Stores that loadSettings may find in the saved data
InitStores == { <<>>, <<NewRecord(<<"a">>, "folder", "below", 1)>> }

Closed == [open |-> FALSE, buttons |-> {}, clearAll |-> FALSE]

DEFAULT_SETTINGS ==
    [dividers |-> <<>>, dividerColor |-> DefaultColor,
     dividerThickness |-> DefaultThickness, enabled |-> TRUE]

\* Object.assign({}, DEFAULT_SETTINGS, data): data is the saved object, a
\* function from the fields it has to their values (no field: null or {});
\* each field of data replaces the default, whatever its value.
loadSettings(data) ==
    [f \in DOMAIN DEFAULT_SETTINGS |->
        IF f \in DOMAIN data THEN data[f] ELSE DEFAULT_SETTINGS[f]]

\* onload() with saved object data, the explorer open or not, showing items
onload(data, explorer, items) ==
    LET settings == loadSettings(data)
        el0 == [e \in (IF explorer THEN items ELSE {}) |-> Untagged]
        r == IF settings.enabled
             THEN applyDividers(settings.dividers, settings.dividerColor,
                                settings.dividerThickness, explorer, <<>>, el0)
             ELSE [styles |-> <<>>, els |-> el0]
    IN /\ dividers = settings.dividers
       /\ dividerColor = settings.dividerColor
       /\ dividerThickness = settings.dividerThickness
       /\ enabled = settings.enabled
       /\ fileExplorer = explorer
       /\ styles = r.styles
       /\ els = r.els
       /\ saves = <<>>
       /\ timers = 0
       /\ panel = Closed
       /\ notice = NoNotice
       /\ loaded = TRUE
       /\ lastOp = "onload"

\* The saved objects of a well-formed earlier run: a store and the switch
SavedData == { [dividers |-> ds, enabled |-> en] : ds \in InitStores, en \in BOOLEAN }

\* The data file is not followed / is followed from the load on: no write yet
Unobserved == [observed |-> FALSE, inflight |-> <<>>, persisted |-> <<>>]
Observed == [observed |-> TRUE, inflight |-> <<>>, persisted |-> <<>>]

Init ==
    /\ \E data \in SavedData, explorer \in BOOLEAN : onload(data, explorer, LiveItems)
    /\ storage \in {Unobserved, Observed}
    /\ roundTrip \in {Untracked, IF enabled THEN [phase |-> "applied", snap |-> NoSnap] ELSE Idle}

----------------------------------------------------------------------------
(* Operations *)

settingsVars == <<dividers, dividerColor, dividerThickness, enabled>>
domVars == <<styles, fileExplorer, els>>

\* JSON.stringify(settings): the fields of the settings, each record with its
\* four fields; the identity of a record object is not part of it
Serialize(ds, color, thickness, en) ==
    [dividers |-> [i \in DOMAIN ds |->
                     [itemName |-> ds[i].itemName, itemType |-> ds[i].itemType,
                      position |-> ds[i].position, style |-> ds[i].style]],
     dividerColor |-> color, dividerThickness |-> thickness, enabled |-> en]

\* saveSettings() up to its await: saveData is called; what follows the await
\* runs in SaveComplete.  redisplay: the caller awaits it and then calls display().
saveSettings(redisplay) ==
    /\ Len(saves) < MaxSaves
    /\ saves' = Append(saves, [redisplay |-> redisplay])
    /\ storage' = IF storage.observed
                  THEN [storage EXCEPT !.inflight =
                           Append(@, Serialize(dividers', dividerColor',
                                               dividerThickness', enabled'))]
                  ELSE storage

addDividerToItem(itemName, itemType, position) ==
    /\ loaded
    /\ UNCHANGED <<dividerColor, dividerThickness, enabled>>
    /\ IF Exists(dividers, itemName, itemType, position)
       THEN /\ notice' = AlreadyExists(itemName, itemType, position)
            /\ UNCHANGED <<dividers, saves, storage, roundTrip>>
       ELSE /\ Len(dividers) < MaxDividers
            /\ dividers' = Push(dividers,
                   NewRecord(itemName, itemType, position, NewId(dividers, panel.buttons)))
            /\ saveSettings(FALSE)
            /\ notice' = Added(itemName, itemType, position)
            /\ roundTrip' = Track(roundTrip, "change", styles, els)
    /\ UNCHANGED <<domVars, timers, panel, loaded>>
    /\ lastOp' = "addDividerToItem"

removeDividerFromItem(itemName, itemType, position) ==
    /\ loaded
    /\ UNCHANGED <<dividerColor, dividerThickness, enabled>>
    /\ dividers' = WithoutTriple(dividers, itemName, itemType, position)
    /\ IF Len(dividers') < Len(dividers)
       THEN /\ saveSettings(FALSE)
            /\ notice' = Removed(itemName, itemType, position)
            /\ roundTrip' = Track(roundTrip, "change", styles, els)
       ELSE UNCHANGED <<saves, storage, notice, roundTrip>>
    /\ UNCHANGED <<domVars, timers, panel, loaded>>
    /\ lastOp' = "removeDividerFromItem"

removeDividersFromItem(itemName, itemType) ==
    /\ loaded
    /\ UNCHANGED <<dividerColor, dividerThickness, enabled>>
    /\ dividers' = WithoutItem(dividers, itemName, itemType)
    /\ IF Len(dividers) > Len(dividers')
       THEN /\ saveSettings(FALSE)
            /\ notice' = RemovedFrom(itemName, itemType, Len(dividers) - Len(dividers'))
            /\ roundTrip' = Track(roundTrip, "change", styles, els)
       ELSE UNCHANGED <<saves, storage, notice, roundTrip>>
    /\ UNCHANGED <<domVars, timers, panel, loaded>>
    /\ lastOp' = "removeDividersFromItem"

\* clearAllDividers(), as far as the settings, the save and the notice go
clearAll ==
    IF Len(dividers) = 0
    THEN /\ notice' = NothingToClear
         /\ UNCHANGED <<dividers, saves, storage, roundTrip>>
    ELSE /\ dividers' = <<>>
         /\ saveSettings(FALSE)
         /\ notice' = Cleared(Len(dividers))
         /\ roundTrip' = Track(roundTrip, "change", styles, els)

\* The 'clear-all-dividers' command
clearAllDividers ==
    /\ loaded
    /\ UNCHANGED <<dividerColor, dividerThickness, enabled>>
    /\ clearAll
    /\ UNCHANGED <<domVars, timers, panel, loaded>>
    /\ lastOp' = "clearAllDividers"

\* The ribbon icon and the 'toggle-files-dividers' command
toggleDividers ==
    /\ loaded
    /\ UNCHANGED <<dividers, dividerColor, dividerThickness>>
    /\ enabled' = ~enabled
    /\ saveSettings(FALSE)
    /\ notice' = Toggled(enabled')
    /\ roundTrip' = Track(roundTrip, IF enabled' THEN "toggleOn" ELSE "toggleOff", styles, els)
    /\ UNCHANGED <<domVars, timers, panel, loaded>>
    /\ lastOp' = "toggleDividers"

\* The 'layout-change' handler
LayoutChange ==
    /\ loaded
    /\ enabled
    /\ timers < MaxTimers
    /\ timers' = timers + 1
    /\ UNCHANGED <<settingsVars, domVars, saves, storage, panel, notice, loaded, roundTrip, lastOp>>

\* The entries the 'file-menu' handler adds for an item
MenuEntry(title, op, position) == [title |-> title, op |-> op, position |-> position]

fileMenu(ds, itemName, itemType) ==
    LET existingAbove == Exists(ds, itemName, itemType, "above")
        existingBelow == Exists(ds, itemName, itemType, "below")
    IN << IF existingAbove
          THEN MenuEntry("Remove divider above", "removeDividerFromItem", "above")
          ELSE MenuEntry("Add divider above", "addDividerToItem", "above"),
          IF existingBelow
          THEN MenuEntry("Remove divider below", "removeDividerFromItem", "below")
          ELSE MenuEntry("Add divider below", "addDividerToItem", "below") >>
       \o (IF existingAbove \/ existingBelow
           THEN << MenuEntry("Remove all dividers", "removeDividersFromItem", "") >>
           ELSE << >>)

\* The menu of vault item v (a TFile or TFolder with its name) is opened and
\* its k-th entry is clicked
MenuClick(v, k) ==
    LET menu == fileMenu(dividers, v.name, v.kind)
    IN /\ loaded
       /\ k \in DOMAIN menu
       /\ CASE menu[k].op = "addDividerToItem" ->
                  addDividerToItem(v.name, v.kind, menu[k].position)
            [] menu[k].op = "removeDividerFromItem" ->
                  removeDividerFromItem(v.name, v.kind, menu[k].position)
            [] menu[k].op = "removeDividersFromItem" ->
                  removeDividersFromItem(v.name, v.kind)

\* A setTimeout callback runs: applyDividers()
TimerFires ==
    /\ timers > 0
    /\ timers' = timers - 1
    /\ LET r == applyDividers(dividers, dividerColor, dividerThickness,
                              fileExplorer, styles, els)
       IN /\ styles' = r.styles
          /\ els' = r.els
          /\ roundTrip' = Track(roundTrip, "apply", styles, els)
    /\ UNCHANGED <<settingsVars, fileExplorer, saves, storage, panel, notice, loaded, lastOp>>

\* display(): one Remove button per record, the clear-all button when the list is not empty
Rendered(ds) ==
    [open |-> TRUE, buttons |-> { ds[i].id : i \in DOMAIN ds }, clearAll |-> Len(ds) # 0]

\* A saveData promise resolves: the rest of saveSettings() runs, then the
\* awaiting caller's display()
SaveComplete(i) ==
    /\ i \in DOMAIN saves
    /\ saves' = [k \in 1..(Len(saves) - 1) |-> IF k < i THEN saves[k] ELSE saves[k + 1]]
    /\ storage' = IF storage.observed
                  THEN [storage EXCEPT
                          !.persisted = << storage.inflight[i] >>,
                          !.inflight = [k \in 1..(Len(saves) - 1) |->
                                          IF k < i THEN @[k] ELSE @[k + 1]]]
                  ELSE storage
    /\ LET r == Reapply(enabled, dividers, dividerColor, dividerThickness,
                        fileExplorer, styles, els)
       IN /\ styles' = r.styles
          /\ els' = r.els
          /\ roundTrip' = Track(roundTrip, IF enabled THEN "apply" ELSE "retract", styles, els)
    /\ panel' = IF saves[i].redisplay /\ panel.open THEN Rendered(dividers) ELSE panel
    /\ UNCHANGED <<settingsVars, fileExplorer, timers, notice, loaded, lastOp>>

----------------------------------------------------------------------------
(* The settings tab *)

\* The tab is opened: display()
display ==
    /\ loaded
    /\ ~panel.open
    /\ panel' = Rendered(dividers)
    /\ UNCHANGED <<settingsVars, domVars, saves, storage, timers, notice, loaded, roundTrip, lastOp>>

\* The tab is closed
hide ==
    /\ panel.open
    /\ panel' = Closed
    /\ UNCHANGED <<settingsVars, domVars, saves, storage, timers, notice, loaded, roundTrip, lastOp>>

\* 'Enable files dividers' toggle, onChange(value)
SetEnabled(value) ==
    /\ loaded /\ panel.open
    /\ UNCHANGED <<dividers, dividerColor, dividerThickness>>
    /\ enabled' = value
    /\ saveSettings(FALSE)
    /\ roundTrip' = Track(roundTrip,
                          IF value = enabled THEN "none"
                          ELSE IF value THEN "toggleOn" ELSE "toggleOff", styles, els)
    /\ UNCHANGED <<domVars, timers, panel, notice, loaded>>
    /\ lastOp' = "SetEnabled"

\* 'Divider color' picker, onChange(value)
SetColor(value) ==
    /\ loaded /\ panel.open
    /\ UNCHANGED <<dividers, dividerThickness, enabled>>
    /\ dividerColor' = value
    /\ saveSettings(FALSE)
    /\ roundTrip' = Track(roundTrip, IF value = dividerColor THEN "none" ELSE "change",
                          styles, els)
    /\ UNCHANGED <<domVars, timers, panel, notice, loaded>>
    /\ lastOp' = "SetColor"

\* 'Divider thickness' slider, setLimits(1, 5, 1), onChange(value)
SetThickness(value) ==
    /\ loaded /\ panel.open
    /\ UNCHANGED <<dividers, dividerColor, enabled>>
    /\ value >= SliderMin /\ value <= SliderMax
    /\ dividerThickness' = value
    /\ saveSettings(FALSE)
    /\ roundTrip' = Track(roundTrip, IF value = dividerThickness THEN "none" ELSE "change",
                          styles, els)
    /\ UNCHANGED <<domVars, timers, panel, notice, loaded>>
    /\ lastOp' = "SetThickness"

\* The Remove button rendered for the record object id: indexOf, splice, save, display
RemoveButton(id) ==
    /\ loaded /\ panel.open
    /\ UNCHANGED <<dividerColor, dividerThickness, enabled>>
    /\ id \in panel.buttons
    /\ dividers' = Splice1(dividers, IndexOf(dividers, id))
    /\ saveSettings(TRUE)
    /\ roundTrip' = Track(roundTrip, IF dividers' = dividers THEN "none" ELSE "change",
                          styles, els)
    /\ UNCHANGED <<domVars, timers, panel, notice, loaded>>
    /\ lastOp' = "RemoveButton"

\* The 'Clear all dividers' button: clearAllDividers(), then display()
ClearAllButton ==
    /\ loaded /\ panel.open
    /\ UNCHANGED <<dividerColor, dividerThickness, enabled>>
    /\ panel.clearAll
    /\ clearAll
    /\ panel' = Rendered(dividers')
    /\ UNCHANGED <<domVars, timers, loaded>>
    /\ lastOp' = "ClearAllButton"

----------------------------------------------------------------------------
(* The host: plugin unload and changes of the file explorer *)

onunload ==
    /\ loaded
    /\ loaded' = FALSE
    /\ LET r == removeDividers(styles, els)
       IN styles' = r.styles /\ els' = r.els
    /\ panel' = Closed
    /\ roundTrip' = Track(roundTrip, "unload", styles, els)
    /\ UNCHANGED <<settingsVars, fileExplorer, saves, storage, timers, notice>>
    /\ lastOp' = "onunload"

\* The file explorer view is opened: its container, and no item yet
ExplorerOpens ==
    /\ loaded
    /\ ~fileExplorer
    /\ fileExplorer' = TRUE
    /\ roundTrip' = Track(roundTrip, "change", styles, els)
    /\ UNCHANGED <<settingsVars, styles, els, saves, storage, timers, panel, notice, loaded, lastOp>>

\* The file explorer view is closed: its container and its items leave the document
ExplorerCloses ==
    /\ loaded
    /\ fileExplorer
    /\ fileExplorer' = FALSE
    /\ els' = [e \in {} |-> Untagged]
    /\ roundTrip' = Track(roundTrip, "change", styles, els)
    /\ UNCHANGED <<settingsVars, styles, saves, storage, timers, panel, notice, loaded, lastOp>>

\* An item is created (or renamed to, or scrolled into view): a new, untagged element
ItemAppears(e) ==
    /\ loaded
    /\ fileExplorer
    /\ e \notin DOMAIN els
    /\ els' = [x \in DOMAIN els \cup {e} |-> IF x = e THEN Untagged ELSE els[x]]
    /\ roundTrip' = Track(roundTrip, "change", styles, els)
    /\ UNCHANGED <<settingsVars, styles, fileExplorer, saves, storage, timers, panel, notice, loaded, lastOp>>

\* An item is deleted (or renamed away): its element leaves the document
ItemDisappears(e) ==
    /\ loaded
    /\ e \in DOMAIN els
    /\ els' = [x \in DOMAIN els \ {e} |-> els[x]]
    /\ roundTrip' = Track(roundTrip, "change", styles, els)
    /\ UNCHANGED <<settingsVars, styles, fileExplorer, saves, storage, timers, panel, notice, loaded, lastOp>>

----------------------------------------------------------------------------

Next ==
    \/ \E n \in ItemNames, t \in ItemTypes, p \in Positions : addDividerToItem(n, t, p)
    \/ \E n \in ItemNames, t \in ItemTypes, p \in Positions : removeDividerFromItem(n, t, p)
    \/ \E n \in ItemNames, t \in ItemTypes : removeDividersFromItem(n, t)
    \/ \E v \in VaultItems, k \in 1..3 : MenuClick(v, k)
    \/ clearAllDividers
    \/ toggleDividers
    \/ LayoutChange
    \/ TimerFires
    \/ \E i \in 1..MaxSaves : SaveComplete(i)
    \/ display
    \/ hide
    \/ \E v \in BOOLEAN : SetEnabled(v)
    \/ \E c \in Colors : SetColor(c)
    \/ \E v \in 1..MaxSlider : SetThickness(v)
    \/ \E id \in Ids : RemoveButton(id)
    \/ ClearAllButton
    \/ onunload
    \/ ExplorerOpens
    \/ ExplorerCloses
    \/ \E e \in LiveItems : ItemAppears(e)
    \/ \E e \in LiveItems : ItemDisappears(e)

Spec == Init /\ [][Next]_vars

(* The product of all operations is large.  The properties below are stated *)
(* for component specifications: each one takes the operations a group of   *)
(* properties is about, with the same definitions as Next.                  *)

(* The store: the context-menu and command operations that write           *)
(* settings.dividers, the enabled switch and the persist completions, with *)
(* the explorer closed.                                                    *)
InitStore == Init /\ ~fileExplorer /\ roundTrip = Untracked /\ storage = Unobserved

\* The triples Add is called with: two positions of one file, a folder of the
\* same name, a file of another name
StoreTriples ==
    { << <<"a">>, "file", "above" >>, << <<"a">>, "file", "below" >>,
      << <<"a">>, "folder", "below" >>, << <<"a", ".", "m">>, "file", "below" >> }

NextStore ==
    \/ \E x \in StoreTriples : addDividerToItem(x[1], x[2], x[3])
    \/ \E n \in ItemNames, t \in ItemTypes, p \in Positions : removeDividerFromItem(n, t, p)
    \/ \E n \in ItemNames, t \in ItemTypes : removeDividersFromItem(n, t)
    \/ clearAllDividers
    \/ toggleDividers
    \/ \E i \in 1..MaxSaves : SaveComplete(i)

SpecStore == InitStore /\ [][NextStore]_vars

(* The store together with the settings tab, whose Remove buttons hold the *)
(* record objects of the rendering they belong to; one folder.             *)
PanelName == <<"a">>

NextPanel ==
    \/ \E p \in Positions : addDividerToItem(PanelName, "folder", p)
    \/ \E p \in Positions : removeDividerFromItem(PanelName, "folder", p)
    \/ removeDividersFromItem(PanelName, "folder")
    \/ clearAllDividers
    \/ toggleDividers
    \/ \E i \in 1..MaxSaves : SaveComplete(i)
    \/ display
    \/ hide
    \/ \E id \in Ids : RemoveButton(id)
    \/ ClearAllButton

SpecPanel == InitStore /\ [][NextPanel]_vars

(* The lifecycle: the enabled switch, layout changes and their delayed applies, *)
(* persist completions, unload and a changing explorer, over a small store.     *)
LifeName == <<"a">>
InitLife == Init /\ roundTrip # Untracked /\ storage = Unobserved

NextLife ==
    \/ \E t \in ItemTypes : addDividerToItem(LifeName, t, "below")
    \/ clearAllDividers
    \/ toggleDividers
    \/ LayoutChange
    \/ TimerFires
    \/ \E i \in 1..MaxSaves : SaveComplete(i)
    \/ \E c \in Colors : SetColor(c)
    \/ display
    \/ onunload
    \/ ExplorerOpens
    \/ ExplorerCloses
    \/ \E e \in LiveItems : ItemAppears(e)
    \/ \E e \in LiveItems : ItemDisappears(e)

SpecLife == InitLife /\ [][NextLife]_vars

(* The enabled switch alone: every saveData call in flight is a Toggle's.  *)
NextToggle ==
    \/ toggleDividers
    \/ LayoutChange
    \/ TimerFires
    \/ \E i \in 1..MaxSaves : SaveComplete(i)
    \/ onunload
    \/ ExplorerOpens
    \/ ExplorerCloses
    \/ \E e \in LiveItems : ItemAppears(e)
    \/ \E e \in LiveItems : ItemDisappears(e)

SpecToggle == InitLife /\ [][NextToggle]_vars

(* Matching: the records are made through the file menu of the vault items, *)
(* all shown in the explorer; a menu is opened when no persist is in flight. *)
InitMatch ==
    /\ \E data \in SavedData : onload(data, TRUE, MatchItems)
    /\ enabled
    /\ dividers = <<>>
    /\ roundTrip = Untracked
    /\ storage = Unobserved

MenuClickAtRest(v, k) == saves = <<>> /\ MenuClick(v, k)

NextMatch ==
    \/ \E v \in VaultItems, k \in 1..3 : MenuClickAtRest(v, k)
    \/ \E i \in 1..MaxSaves : SaveComplete(i)

SpecMatch == InitMatch /\ [][NextMatch]_vars

(* The appearance: the color picker and the slider over its whole range,   *)
(* with the dividers of one folder.                                        *)
GeometryName == <<"a">>
InitGeometry ==
    Init /\ ~fileExplorer /\ enabled /\ roundTrip = Untracked /\ storage = Unobserved

NextGeometry ==
    \/ \E p \in Positions : addDividerToItem(GeometryName, "folder", p)
    \/ clearAllDividers
    \/ \E i \in 1..MaxSaves : SaveComplete(i)
    \/ display
    \/ \E c \in Colors : SetColor(c)
    \/ \E v \in SliderMin..SliderMax : SetThickness(v)

SpecGeometry == InitGeometry /\ [][NextGeometry]_vars

(* The startup load: the saved object holds any of the four fields, and a  *)
(* thickness that an edited or older data file may hold, inside the range  *)
(* of the slider or not.                                                   *)
StoredThickness == {0, 3, 9}

\* The saved object that has the fields F of settings
SavedObject(F, settings) == [f \in F |-> settings[f]]

InitLoad ==
    /\ \E F \in SUBSET (DOMAIN DEFAULT_SETTINGS), ds \in InitStores, c \in Colors,
          t \in StoredThickness, en \in BOOLEAN, explorer \in BOOLEAN :
          onload(SavedObject(F, [dividers |-> ds, dividerColor |-> c,
                                 dividerThickness |-> t, enabled |-> en]),
                 explorer, LiveItems)
    /\ roundTrip = Untracked
    /\ storage = Unobserved

NextLoad ==
    \/ toggleDividers
    \/ \E i \in 1..MaxSaves : SaveComplete(i)
    \/ display
    \/ hide
    \/ \E v \in 1..MaxSlider : SetThickness(v)

SpecLoad == InitLoad /\ [][NextLoad]_vars

(* Persistence: the operations that change the settings, on the dividers   *)
(* of one folder shown in the explorer, with the data file followed.       *)
PersistName == <<"a">>
InitPersist == Init /\ fileExplorer /\ roundTrip = Untracked /\ storage = Observed

NextPersist ==
    \/ \E p \in Positions : addDividerToItem(PersistName, "folder", p)
    \/ \E p \in Positions : removeDividerFromItem(PersistName, "folder", p)
    \/ removeDividersFromItem(PersistName, "folder")
    \/ clearAllDividers
    \/ \E i \in 1..MaxSaves : SaveComplete(i)
    \/ display
    \/ SetColor("#ff0000")
    \/ SetThickness(SliderMin)
    \/ \E id \in Ids : RemoveButton(id)


SpecPersist == InitPersist /\ [][NextPersist]_vars

----------------------------------------------------------------------------
(* Properties of the store *)

HasTriple(ds, n, t, p) == \E i \in DOMAIN ds : Triple(ds[i]) = <<n, t, p>>

\* The k-th smallest element of a set of indices
Nth(S, k) == CHOOSE i \in S : Cardinality({ j \in S : j < i }) = k - 1

\* after is before with exactly the records at the indices Kept, in their order
IsRestriction(after, before, Kept) ==
    /\ Len(after) = Cardinality(Kept)
    /\ \A k \in 1..Len(after) : after[k] = before[Nth(Kept, k)]

\* Neither the rendering nor a pending delayed apply changes in this step
NoReapply == styles' = styles /\ els' = els /\ timers' = timers

\* C1 (Uniqueness): whatever sequence of Add, RemoveOne, RemoveAll, ClearAll,
\* Toggle and settings-tab Remove / Clear-all operations has run, no two
\* records of the store have the same (itemName, itemType, position).
C1_Uniqueness ==
    \A i, j \in DOMAIN dividers :
        i # j => Triple(dividers[i]) # Triple(dividers[j])

\* An Add of a triple that is already stored has been refused while the store
\* holds two records of the same item
C1_Witness ==
    /\ lastOp = "addDividerToItem"
    /\ notice.kind = "already exists"
    /\ Len(dividers) = 2
    /\ dividers[1].itemName = dividers[2].itemName
    /\ dividers[1].itemType = dividers[2].itemType

\* C2: Add of a triple that is already stored shows "already exists" and
\* changes nothing: the divider sequence is the same, no saveData call is
\* issued, and neither the rendering nor the pending applies change.
C2_AddExisting ==
    [][ \A n \in ItemNames, t \in ItemTypes, p \in Positions :
          (addDividerToItem(n, t, p) /\ HasTriple(dividers, n, t, p))
            => /\ notice' = AlreadyExists(n, t, p)
               /\ dividers' = dividers
               /\ saves' = saves
               /\ NoReapply ]_vars

\* The second Add of the scenario has been refused: one record, nothing in flight
C2_Witness ==
    /\ lastOp = "addDividerToItem"
    /\ notice.kind = "already exists"
    /\ Len(dividers) = 1
    /\ HasTriple(dividers, notice.itemName, notice.itemType, notice.position)
    /\ saves = <<>>

\* C3: Add of a triple that is not stored appends exactly one record
\* (itemName, itemType, position, style line) at the end: the earlier records
\* keep content and order; enabled, color and thickness are unchanged; one
\* saveData call is issued, the rendering is left alone by the Add itself, and
\* the completion of a saveData call while enabled leaves exactly one style
\* block, the rules of the current store (none when the store is empty).
C3_AddNew ==
    [][ /\ \A n \in ItemNames, t \in ItemTypes, p \in Positions :
             (addDividerToItem(n, t, p) /\ ~HasTriple(dividers, n, t, p))
               => /\ Len(dividers') = Len(dividers) + 1
                  /\ SubSeq(dividers', 1, Len(dividers)) = dividers
                  /\ Triple(dividers'[Len(dividers')]) = <<n, t, p>>
                  /\ dividers'[Len(dividers')].style = "line"
                  /\ <<enabled', dividerColor', dividerThickness'>>
                        = <<enabled, dividerColor, dividerThickness>>
                  /\ Len(saves') = Len(saves) + 1
                  /\ SubSeq(saves', 1, Len(saves)) = saves
                  /\ NoReapply
        /\ (Len(saves') < Len(saves) /\ enabled)
               => styles' = IF dividers = <<>> THEN <<>>
                            ELSE << CssRules(dividers, dividerColor, dividerThickness) >>
      ]_vars

\* A second record has been added behind a first one and its save is in flight
C3_Witness ==
    /\ lastOp = "addDividerToItem"
    /\ notice.kind = "added"
    /\ Len(dividers) = 2
    /\ Triple(dividers[2]) = <<notice.itemName, notice.itemType, notice.position>>
    /\ saves # <<>>

\* C4: RemoveOne deletes the record with that triple if there is one (0 or 1
\* records go), every other record stays, in its relative order; a saveData
\* call is issued if and only if a record was removed, and the RemoveOne itself
\* does not touch the rendering.
C4_RemoveOne ==
    [][ \A n \in ItemNames, t \in ItemTypes, p \in Positions :
          removeDividerFromItem(n, t, p)
            => LET Kept == { i \in DOMAIN dividers : Triple(dividers[i]) # <<n, t, p>> }
                   removed == Len(dividers) - Len(dividers')
               IN /\ IsRestriction(dividers', dividers, Kept)
                  /\ removed \in {0, 1}
                  /\ removed = 1 <=> HasTriple(dividers, n, t, p)
                  /\ IF removed = 1
                     THEN Len(saves') = Len(saves) + 1 /\ SubSeq(saves', 1, Len(saves)) = saves
                     ELSE saves' = saves
                  /\ NoReapply ]_vars

\* One of two records of the same item has been removed, the other is left
C4_Witness ==
    /\ lastOp = "removeDividerFromItem"
    /\ notice.kind = "removed"
    /\ Len(dividers) = 1
    /\ dividers[1].itemName = notice.itemName
    /\ dividers[1].itemType = notice.itemType
    /\ dividers[1].position # notice.position
    /\ saves # <<>>

\* C5: RemoveAll deletes every record of (itemName, itemType) whatever its
\* position and no record of another name or type, shows the number removed,
\* and issues a saveData call if and only if that number is greater than 0.
C5_RemoveAll ==
    [][ \A n \in ItemNames, t \in ItemTypes :
          removeDividersFromItem(n, t)
            => LET Kept == { i \in DOMAIN dividers :
                               ~(dividers[i].itemName = n /\ dividers[i].itemType = t) }
                   removed == Len(dividers) - Len(dividers')
               IN /\ IsRestriction(dividers', dividers, Kept)
                  /\ notice' = RemovedFrom(n, t, removed)
                  /\ IF removed > 0
                     THEN Len(saves') = Len(saves) + 1 /\ SubSeq(saves', 1, Len(saves)) = saves
                     ELSE saves' = saves
                  /\ NoReapply ]_vars

----------------------------------------------------------------------------
(* Properties of the rendering *)

\* No rule definitions and no tags
Retracted(st, el) ==
    /\ st = <<>>
    /\ \A e \in DOMAIN el : el[e] = Untagged

\* The Apply outcome for a store and appearance: one style block with the
\* rules of the store (none for an empty store), and each live item carries
\* the classes of the records that tag it, and data attributes if any does.
Shows(ds, color, thickness, st, el) ==
    /\ st = IF ds = <<>> THEN <<>> ELSE << CssRules(ds, color, thickness) >>
    /\ \A e \in DOMAIN el :
          LET hits == { i \in DOMAIN ds : Tags(ds[i], e) }
          IN /\ el[e].classes =
                    { ClassName(ItemClass(ds[i].itemType), ds[i].position) : i \in hits }
             /\ el[e].dataItem \subseteq { ds[i].itemName : i \in hits }
             /\ el[e].dataType \subseteq { ds[i].itemType : i \in hits }
             /\ hits # {} => el[e].dataItem # {} /\ el[e].dataType # {}

\* A saveData call completes in this step
PersistCompletes == Len(saves') < Len(saves)

\* C6: ClearAll on an empty store shows "nothing to clear", issues no saveData
\* call and leaves the rendering alone; on a store of n > 0 records it shows
\* n, empties the store and issues one saveData call; a persist that completes
\* while the store is empty leaves no rule definitions and no tags, enabled or
\* not, and so does every state with an empty store and no persist in flight.
C6_ClearAll ==
    /\ []((dividers = <<>> /\ saves = <<>>) => Retracted(styles, els))
    /\ [][ /\ (clearAllDividers /\ Len(dividers) = 0)
                => /\ notice' = NothingToClear
                   /\ dividers' = dividers
                   /\ saves' = saves
                   /\ NoReapply
           /\ (clearAllDividers /\ Len(dividers) > 0)
                => /\ notice' = Cleared(Len(dividers))
                   /\ dividers' = <<>>
                   /\ Len(saves') = Len(saves) + 1
                   /\ NoReapply
           /\ (PersistCompletes /\ dividers = <<>>) => Retracted(styles', els')
         ]_vars

\* ClearAll has emptied a store while enabled and with live items shown, and
\* its persist has completed
C6_Witness ==
    /\ lastOp = "clearAllDividers"
    /\ notice.kind = "cleared"
    /\ notice.count > 0
    /\ dividers = <<>>
    /\ saves = <<>>
    /\ enabled
    /\ DOMAIN els = LiveItems

\* C7: Toggle flips enabled, issues one saveData call, shows the new state and
\* changes neither the store, the color, the thickness nor (by itself) the
\* rendering; every completion of a saveData call leaves the Apply outcome if
\* enabled holds then and the Retract outcome if not, so that when the last of
\* several overlapping persists completes the rendering is that of the final
\* value of enabled.
C7_Toggle ==
    [][ /\ toggleDividers
             => /\ enabled' = ~enabled
                /\ notice' = Toggled(enabled')
                /\ <<dividers', dividerColor', dividerThickness'>>
                      = <<dividers, dividerColor, dividerThickness>>
                /\ Len(saves') = Len(saves) + 1
                /\ NoReapply
        /\ PersistCompletes
             => IF enabled'
                THEN Shows(dividers', dividerColor', dividerThickness', styles', els')
                ELSE Retracted(styles', els')
      ]_vars

\* A second Toggle has been issued while the first Toggle's persist was still in
\* flight, with a record stored and its item shown
C7_Witness ==
    /\ lastOp = "toggleDividers"
    /\ notice = Toggled(enabled)
    /\ Len(saves) = 2
    /\ dividers # <<>>
    /\ \E e \in DOMAIN els : \E i \in DOMAIN dividers : Tags(dividers[i], e)

\* C8 (Toggle round trip): from a rendering produced by Apply, with store,
\* appearance and live tree unchanged throughout, the retract of a switch to
\* disabled leaves no rule definitions and no tags, and the apply of the switch
\* back to enabled leaves the style blocks and the tags that were there before
\* the first switch.
C8_RoundTrip ==
    /\ [](roundTrip.phase = "restored" => <<styles, els>> = roundTrip.snap)
    /\ [][ (roundTrip.phase = "off" /\ roundTrip'.phase = "retracted")
              => Retracted(styles', els') ]_vars

\* A round trip has completed with two records stored and a tagged live item
C8_Witness ==
    /\ roundTrip.phase = "restored"
    /\ lastOp = "toggleDividers"
    /\ enabled
    /\ Len(dividers) = 2
    /\ styles # <<>>
    /\ \E e \in DOMAIN els : els[e].classes # {}

\* C9 (Disabled means fully retracted): whenever enabled is false and no
\* persist is in flight there are no rule definitions and no tags.
C9_DisabledIsRetracted ==
    (~enabled /\ saves = <<>>) => Retracted(styles, els)

\* C10 (Debounce): at most one delayed Apply is pending at any time.
C10_SinglePendingApply ==
    timers <= 1

----------------------------------------------------------------------------
(* Properties of shutdown, Retract and Apply *)

\* C11 (Shutdown): in every state after onunload there are no rule
\* definitions and no tags, also when a delayed apply or a persist completion
\* was pending at the moment of the unload.
C11_ShutdownRetracted ==
    ~loaded => Retracted(styles, els)

\* A Retract runs in this step: onunload, or a persist completing while disabled
RetractRuns == onunload \/ (PersistCompletes /\ ~enabled)

\* An Apply runs in this step: a delayed apply, or a persist completing while enabled
ApplyRuns == TimerFires \/ (PersistCompletes /\ enabled)

\* C12 (Idempotent Retract): every Retract leaves no rule block and no tagged
\* item and changes no setting; a Retract that runs when nothing is applied
\* leaves the style blocks and the live items as they are; and from every
\* state, a Retract directly after a Retract changes nothing.
C12_IdempotentRetract ==
    /\ [](LET r == removeDividers(styles, els)
          IN /\ Retracted(r.styles, r.els)
             /\ removeDividers(r.styles, r.els) = r)
    /\ [][ RetractRuns
             => /\ Retracted(styles', els')
                /\ Retracted(styles, els) => (styles' = styles /\ els' = els)
                /\ <<dividers', dividerColor', dividerThickness', enabled'>>
                      = <<dividers, dividerColor, dividerThickness, enabled>> ]_vars

\* Unloaded while disabled with a record stored and its item shown, every
\* persist completed and every delayed apply scheduled before the switch to
\* disabled still pending: the last Retract (of onunload, or of a persist
\* completing after it) ran directly after another Retract.
C12_Witness ==
    /\ ~loaded
    /\ lastOp = "onunload"
    /\ ~enabled
    /\ saves = <<>>
    /\ timers = MaxTimers
    /\ dividers # <<>>
    /\ \E e \in DOMAIN els : \E i \in DOMAIN dividers : Tags(dividers[i], e)

\* C13 (Rebuild determinism): an Apply that runs on the outcome of an Apply,
\* with settings and live tree unchanged in between, leaves the same style
\* blocks and the same tags: at most one style block, and on each live item
\* exactly the tags of the records that match it; and from every state, two
\* Applies in a row give what one gives.
C13_RebuildDeterminism ==
    /\ [](LET r1 == applyDividers(dividers, dividerColor, dividerThickness,
                                   fileExplorer, styles, els)
              r2 == applyDividers(dividers, dividerColor, dividerThickness,
                                   fileExplorer, r1.styles, r1.els)
          IN r2 = r1 /\ Len(r1.styles) <= 1)
    /\ [][ (ApplyRuns /\ roundTrip.phase \in {"applied", "reapplied", "restored"})
             => /\ styles' = styles
                /\ els' = els
                /\ Shows(dividers', dividerColor', dividerThickness', styles', els') ]_vars

\* A second Apply has run on the outcome of a first one, with two records
\* stored and a tagged live item
C13_Witness ==
    /\ roundTrip.phase = "reapplied"
    /\ Len(dividers) = 2
    /\ Len(styles) = 1
    /\ \E e \in DOMAIN els : els[e].classes # {}

----------------------------------------------------------------------------
(* Properties of the matcher *)

\* The name without its last dot-delimited suffix: what stands before the
\* last "." when something follows it, the name itself otherwise
WithoutLastSuffix(s) ==
    LET dots == { i \in 1..Len(s) : s[i] = "." }
        last == CHOOSE i \in dots : \A j \in dots : j <= i
    IN IF dots = {} THEN s
       ELSE IF last = Len(s) THEN s
       ELSE SubSeq(s, 1, last - 1)

\* The four conditions on a record name and a live name
FourConditions(record, live) ==
    \/ record = live
    \/ WithoutLastSuffix(record) = WithoutLastSuffix(live)
    \/ live = WithoutLastSuffix(record)
    \/ WithoutLastSuffix(live) = record

\* Names of up to MaxLen characters over letters and dots
MaxLen == 4
NameChars == {"t", "m", "."}
SmallNames == UNION { [1..n -> NameChars] : n \in 0..MaxLen }

\* The live item of a kind and displayed name
Live(kind, text) == [kind |-> kind, text |-> text]

\* The class of that kind and position is on live item e
HasClass(el, e, position) == ClassName(ItemClass(e.kind), position) \in el[e].classes

\* C14 (Extension-insensitive file match): extension stripping removes the
\* last dot-delimited suffix and nothing else, and leaves a name without a dot
\* as it is; after an Apply, a live file carries the class of a position
\* exactly when a file record of that position satisfies one of the four
\* conditions with the file's displayed name; a record "t.m" matches the
\* live file "t" and a record "t" matches the live file "t.m".
C14_FileMatch ==
    /\ \A n \in SmallNames : StripExt(n) = WithoutLastSuffix(n)
    /\ FileMatch(<<"t">>, <<"t", ".", "m">>)
    /\ FileMatch(<<"t", ".", "m">>, <<"t">>)
    /\ [][ ApplyRuns
             => \A e \in DOMAIN els' : \A p \in Positions :
                   e.kind = "file"
                     => (HasClass(els', e, p)
                          <=> \E i \in DOMAIN dividers :
                                 /\ dividers[i].itemType = "file"
                                 /\ dividers[i].position = p
                                 /\ FourConditions(dividers[i].itemName, Trim(e.text))) ]_vars

\* Applied with a record "t.m" (below) and a record "t" (above): each is on
\* the live files "t" and "t.m"
C14_Witness ==
    /\ saves = <<>>
    /\ { Triple(dividers[i]) : i \in DOMAIN dividers }
          = { << <<"t", ".", "m">>, "file", "below" >>, << <<"t">>, "file", "above" >> }
    /\ \A e \in { Live("file", <<"t">>), Live("file", <<" ", "t", ".", "m">>) } :
          HasClass(els, e, "below") /\ HasClass(els, e, "above")

\* C15 (Folder exact match): after an Apply, a live folder carries the class
\* of a position exactly when a folder record of that position has the
\* folder's displayed name as its itemName, character for character; a
\* folder never carries a file class and a file never carries a folder class.
C15_FolderMatch ==
    [][ ApplyRuns
          => \A e \in DOMAIN els' :
               /\ e.kind = "folder"
                    => \A p \in Positions :
                         HasClass(els', e, p)
                           <=> \E i \in DOMAIN dividers :
                                  /\ dividers[i].itemType = "folder"
                                  /\ dividers[i].position = p
                                  /\ dividers[i].itemName = Trim(e.text)
               /\ \A p \in Positions :
                    ClassName(ItemClass(IF e.kind = "folder" THEN "file" ELSE "folder"), p)
                        \notin els'[e].classes ]_vars

\* Applied with the one record ("t", folder, below): the folder "t" carries
\* its class; the folders "t2" and "t.m" and the file "t" carry nothing
C15_Witness ==
    /\ saves = <<>>
    /\ Len(dividers) = 1
    /\ Triple(dividers[1]) = << <<"t">>, "folder", "below" >>
    /\ HasClass(els, Live("folder", <<"t">>), "below")
    /\ els[Live("folder", <<"t", "2">>)] = Untagged
    /\ els[Live("folder", <<"t", ".", "m">>)] = Untagged
    /\ els[Live("file", <<"t">>)] = Untagged

\* The titles of a menu
Titles(menu) == { menu[k].title : k \in DOMAIN menu }

\* C19 (Context-menu actions): the menu of an item offers, for each position,
\* "Remove divider" if the record (name, type, position) is stored and "Add
\* divider" if not, and "Remove all dividers" exactly when one of the two is
\* stored, 2 or 3 entries in all; and it offers "Remove divider" for a
\* position exactly when a stored record of that position applies to the item
\* under the matcher.
C19_MenuAgrees ==
    \A v \in VaultItems :
        LET menu == fileMenu(dividers, v.name, v.kind)
            Stored(p) == HasTriple(dividers, v.name, v.kind, p)
            Applies(p) == \E i \in DOMAIN dividers :
                             /\ dividers[i].position = p
                             /\ Tags(dividers[i], Live(v.kind, v.text))
        IN /\ Len(menu) \in {2, 3}
           /\ ("Remove divider above" \in Titles(menu)) <=> Stored("above")
           /\ ("Add divider above" \in Titles(menu)) <=> ~Stored("above")
           /\ ("Remove divider below" \in Titles(menu)) <=> Stored("below")
           /\ ("Add divider below" \in Titles(menu)) <=> ~Stored("below")
           /\ ("Remove all dividers" \in Titles(menu)) <=> (Stored("above") \/ Stored("below"))
           /\ ("Remove divider above" \in Titles(menu)) <=> Applies("above")
           /\ ("Remove divider below" \in Titles(menu)) <=> Applies("below")

\* The rule of record d selects an element with these tags:
\* .class[data-item="..."][data-type="..."]
Selects(d, tags) ==
    /\ ClassName(ItemClass(d.itemType), d.position) \in tags.classes
    /\ tags.dataItem = {d.itemName}
    /\ tags.dataType = {d.itemType}

\* C20 (Additive multi-match): after an Apply, the rule of every record that
\* matches a live item selects that item, whatever other records match it.
C20_Additive ==
    [][ ApplyRuns
          => \A e \in DOMAIN els' : \A i \in DOMAIN dividers :
                Tags(dividers[i], e) => Selects(dividers[i], els'[e]) ]_vars

----------------------------------------------------------------------------
(* Properties of the generated rules *)

\* Rule r has height t and color c and lies on the side of position p:
\* offset -(8 + t) on the top edge for above, on the bottom edge for below,
\* and a margin of 16 on that side
Geometry(r, t, c, p) ==
    /\ r.height = t
    /\ r.background = c
    /\ r.offset = 0 - (8 + t)
    /\ r.margin = 16
    /\ r.offsetSide = (IF p = "above" THEN "top" ELSE "bottom")
    /\ r.marginSide = (IF p = "above" THEN "margin-top" ELSE "margin-bottom")

\* C16 (Generated rule geometry): for every thickness 1..5, color and position
\* the rule of a record has the geometry above (thickness 3, above: top
\* offset -11 and margin-top 16), and every Apply emits, record by record, the
\* rule with that geometry for the thickness and color of that moment.
C16_RuleGeometry ==
    /\ \A t \in 1..5, c \in Colors, p \in Positions :
          Geometry(CssRule(NewRecord(GeometryName, "folder", p, 1), c, t), t, c, p)
    /\ LET r == CssRule(NewRecord(GeometryName, "folder", "above", 1), "#ff0000", 3)
       IN r.offsetSide = "top" /\ r.offset = -11
          /\ r.marginSide = "margin-top" /\ r.margin = 16
    /\ [][ (ApplyRuns /\ dividers # <<>>)
             => /\ Len(styles') = 1
                /\ Len(styles'[1]) = Len(dividers)
                /\ \A i \in DOMAIN dividers :
                      Geometry(styles'[1][i], dividerThickness, dividerColor,
                               dividers[i].position) ]_vars

\* Applied with thickness 3, color #ff0000 and one record above: the rule
\* has height 3, that color, top offset -11 and margin-top 16
C16_Witness ==
    /\ dividerThickness = 3
    /\ dividerColor = "#ff0000"
    /\ Len(dividers) = 1
    /\ dividers[1].position = "above"
    /\ saves = <<>>
    /\ Len(styles) = 1
    /\ Len(styles[1]) = 1
    /\ styles[1][1].height = 3
    /\ styles[1][1].background = "#ff0000"
    /\ styles[1][1].offsetSide = "top"
    /\ styles[1][1].offset = -11
    /\ styles[1][1].marginSide = "margin-top"
    /\ styles[1][1].margin = 16

----------------------------------------------------------------------------
(* Properties of the notifications *)

\* The notice is about itemName, itemType and position and of one of the kinds
About(n, kinds, itemName, itemType, position) ==
    /\ n.kind \in kinds
    /\ n.itemName = itemName
    /\ n.itemType = itemType
    /\ n.position = position

\* C17 (Every outcome is notified): Add shows "added" or "already exists",
\* RemoveOne "removed" or a not-found message, RemoveAll the number removed,
\* ClearAll "cleared" or "nothing to clear", the Remove button of the settings
\* tab a removal message and Toggle the new state, the no-op outcomes included.
C17_EveryOutcomeNotified ==
    [][ /\ \A n \in ItemNames, t \in ItemTypes, p \in Positions :
             /\ addDividerToItem(n, t, p)
                  => About(notice', {"added", "already exists"}, n, t, p)
             /\ removeDividerFromItem(n, t, p)
                  => About(notice', {"removed", "not found"}, n, t, p)
        /\ \A n \in ItemNames, t \in ItemTypes :
             removeDividersFromItem(n, t)
                  => About(notice', {"removed from"}, n, t, "")
        /\ (clearAllDividers \/ ClearAllButton)
             => notice'.kind \in {"cleared", "no dividers to clear"}
        /\ toggleDividers => notice' = Toggled(enabled')
        /\ (\E id \in Ids : RemoveButton(id))
             => (notice'.kind \in {"removed", "not found"} /\ notice' # notice)
      ]_vars

----------------------------------------------------------------------------
(* Properties of the settings *)

\* C18 (Settings validity): a field that the saved object lacks holds its
\* default after the load (no dividers, #484848, thickness 1, enabled), and in
\* every state dividerThickness is an integer of 1..5 and enabled a boolean.
C18_SettingsValid ==
    /\ \A F \in SUBSET {"dividers", "dividerColor", "dividerThickness", "enabled"} :
          LET saved == [dividers |-> <<NewRecord(<<"a">>, "folder", "below", 1)>>,
                        dividerColor |-> "#ff0000", dividerThickness |-> 3,
                        enabled |-> FALSE]
              settings == loadSettings(SavedObject(F, saved))
          IN /\ "dividers" \notin F => settings.dividers = <<>>
             /\ "dividerColor" \notin F => settings.dividerColor = "#484848"
             /\ "dividerThickness" \notin F => settings.dividerThickness = 1
             /\ "enabled" \notin F => settings.enabled = TRUE
    /\ dividerThickness \in 1..5
    /\ enabled \in BOOLEAN

----------------------------------------------------------------------------
(* Properties of the settings tab *)

\* C22 (Settings-panel remove is exact): the Remove button rendered for a
\* record deletes that record and no other, the others keeping their order;
\* when the record is no longer in the store at the click, the store is left
\* as it is.
C22_PanelRemoveExact ==
    [][ \A id \in Ids :
          RemoveButton(id)
            => LET Kept == { i \in DOMAIN dividers : dividers[i].id # id }
               IN IsRestriction(dividers', dividers, Kept) ]_vars

----------------------------------------------------------------------------
(* Properties of the persistence *)

\* The settings change in this step
Mutates ==
    <<dividers', dividerColor', dividerThickness'>>
        # <<dividers, dividerColor, dividerThickness>>

\* The tagged live items are exactly those that a record of the store matches
TaggedAreMatched(ds, el) ==
    \A e \in DOMAIN el :
        (el[e].classes # {} \/ el[e].dataItem # {})
            <=> \E i \in DOMAIN ds : Tags(ds[i], e)

\* C21 (Persist-then-reapply ordering): every operation that changes the
\* store, the color or the thickness issues one saveData call and leaves the
\* rendering to the completion of a save, which applies when enabled and
\* retracts when not; and whenever no save is in flight, the content last
\* written to the data file is the settings in memory and, when enabled, the
\* tagged items are exactly the live items matched by the store.
C21_PersistThenReapply ==
    /\ []((saves = <<>> /\ storage.persisted # <<>>)
            => storage.persisted[1]
                 = Serialize(dividers, dividerColor, dividerThickness, enabled))
    /\ []((saves = <<>> /\ enabled) => TaggedAreMatched(dividers, els))
    /\ [][ /\ Mutates => (Len(saves') = Len(saves) + 1 /\ NoReapply)
           /\ PersistCompletes
                => IF enabled
                   THEN Shows(dividers', dividerColor', dividerThickness', styles', els')
                   ELSE Retracted(styles', els') ]_vars

====
